---- MODULE Spec2Model ----
(***************************************************************************)
(* Motion-control core of team 4560's robot: joystick shaping              *)
(* (scaleJoystick), holonomic wheel mixing (moveRobot, spin), the          *)
(* compass-driven turnToHeading loop, the encoder-counted armStep, and     *)
(* the two TeleOp tasks (drivingTask, armTask) that share the global       *)
(* `joystick` structure.                                                   *)
(*                                                                         *)
(* Two programs include the common header: the TeleOp program, whose       *)
(* tasks are interleaved statement by statement, and an autonomous         *)
(* program that calls turnToHeading.  `program` says which one runs.       *)
(* Floating point is modelled in fixed point: cosDegrees and sinDegrees    *)
(* are a table scaled by TrigScale, and a float -> int conversion is a     *)
(* truncation toward zero.                                                 *)
(***************************************************************************)
EXTENDS Integers, Sequences, FiniteSets, TLC

VARIABLES
    program,               \* "TeleOp", "Autonomous", or a unit harness
    bUseLogarithmicScale,  \* Common.h:38
    joystick,              \* the global joystick structure (JoystickDriver.c)
    x_val, y_val,          \* part_000:11
    motor,                 \* motor[]: wheel and arm power registers
    servo,                 \* servo[]: sweeper and compass-holder targets
    nMotorEncoder,         \* nMotorEncoder[motorArm]
    compass,               \* what HTMCreadHeading(sensorCompass) returns now
    compassFrozen,         \* the heading sensor never changes its reading
    encoderFrozen,         \* the arm encoder never moves by itself
    dpc,                   \* drivingTask: position in the loop body
    driveSample,           \* the sample drivingTask's own getJoystickSettings captured
    apc,                   \* armTask: position in the loop body / in armStep
    aret,                  \* armTask: where armStep returns to
    stepSpeed, stepSize,   \* armStep: arguments
    stepDirection,         \* armStep: local `direction`
    tpc,                   \* turnToHeading: position
    heading, speed,        \* turnToHeading: arguments of the active level
    startAngle, lastReading, currentReading, numReadings, direction,
                           \* turnToHeading: locals of the active level
    result,                \* turnToHeading: returned value
    entrySpeed,            \* the speed the outermost turnToHeading was called with
    stalls,                \* speeds of the levels that stalled, in order
    io,                    \* hardware access of the latest turnToHeading step
    lastPoll,              \* <<reading>> of the latest poll of line 206, <<>> before the first
    spunLevel,             \* the active level has run a loop body
    dgpc,                  \* turnDegrees: "idle", "called" (inside turnToHeading) or "done"
    degAngle,              \* turnDegrees: argument
    degResult,             \* turnDegrees: returned value
    lastServoOp,           \* latest compass-holder operation
    lastWheelOp,           \* latest wheel operation: <<"spin", s>> or <<"moveRobot", s, a>>
    uArg, uRet, uDone      \* unit harness: arguments, returned value, applied

tvars == <<tpc, heading, speed, startAngle, lastReading, currentReading,
           numReadings, direction, result, entrySpeed, stalls,
           io, lastPoll, spunLevel, dgpc, degAngle, degResult, lastServoOp>>
hvars == <<dgpc, degAngle, degResult, lastServoOp>>
dvars == <<dpc, driveSample, x_val, y_val>>
avars == <<apc, aret, stepSpeed, stepSize, stepDirection>>
uvars == <<uArg, uRet, uDone>>
envvars == <<program, bUseLogarithmicScale, compassFrozen, encoderFrozen>>
vars == <<envvars, joystick, motor, servo, nMotorEncoder, compass,
          dvars, avars, tvars, lastWheelOp, uvars>>

----------------------------------------------------------------------------
(* Bounds of the model *)

MaxEnc == 150        \* the arm encoder stays in -MaxEnc..MaxEnc
EncStep == 50        \* ticks the arm encoder moves in one environment step
MaxSpeedArg == 104   \* moveRobot harness: speed in -MaxSpeedArg..MaxSpeedArg
MaxPowerArg == 103   \* scaleJoystick harness: nMaxPower in -2..MaxPowerArg
MaxAxisArg == 100    \* getAngle harness: x_val, y_val in -MaxAxisArg..MaxAxisArg

(* Program constants *)

kMaximumPowerLevel == 100
TopHat_Idle == -1
TopHat_Up == 0
TopHat_Down == 4
TrigScale == 10000

Wheels == {"motorNW", "motorNE", "motorSE", "motorSW"}
Motors == Wheels \cup {"motorArm"}

----------------------------------------------------------------------------
(* C arithmetic *)

Abs(v) == IF v < 0 THEN -v ELSE v
Min(a, b) == IF a < b THEN a ELSE b
Max(a, b) == IF a > b THEN a ELSE b

\* C's `/` on ints and the float -> int conversion: toward zero (b > 0)
TruncDiv(a, b) == IF a >= 0 THEN a \div b ELSE -((-a) \div b)

\* C's `%`: the sign of the result is the sign of the dividend
TruncMod(a, b) == a - b * TruncDiv(a, b)

----------------------------------------------------------------------------
(* scaleJoystick, Common.h:51-100 *)

nLogScale ==
  << 0,    0,   6,   7,   8,   9,  10,  11,
     12,  14,  15,  17,  18,  22,  22,  24,
     30,  33,  36,  40,  43,  47,  50,  55,
     60,  66,  72,  77,  81,  89,  95, 100,
     100 >>

ClampAxis(yOrig) == IF yOrig < 0 THEN Max(yOrig, -127) ELSE Min(yOrig, 127)

LogCurveUnsigned(yScaled) ==
  LET q == TruncDiv(yScaled, 4)
  IN  IF q >= 0 THEN nLogScale[q + 1] ELSE nLogScale[-q + 1]

LogCurve(yScaled) ==
  LET q == TruncDiv(yScaled, 4)
  IN  IF q >= 0 THEN nLogScale[q + 1] ELSE -nLogScale[-q + 1]

LinearCurve(yScaled) ==
  IF Abs(yScaled) < 10 THEN 0 ELSE TruncDiv(yScaled * 100, 127)

LimitAppliesAnySign(nMaxPower) == nMaxPower < kMaximumPowerLevel

LimitApplies(nMaxPower) == nMaxPower < kMaximumPowerLevel /\ nMaxPower > 0

scaleJoystick(yOrig, nMaxPower) ==
  LET clamped == ClampAxis(yOrig)
      curved  == IF bUseLogarithmicScale THEN LogCurve(clamped)
                                         ELSE LinearCurve(clamped)
  IN  IF LimitApplies(nMaxPower)
      THEN TruncDiv(curved * nMaxPower, kMaximumPowerLevel)
      ELSE curved

----------------------------------------------------------------------------
(* cap100, Common.h:139-145 *)

cap100(value) == IF value > 0 THEN Min(value, 100) ELSE Max(value, -100)

----------------------------------------------------------------------------
(* cosDegrees / sinDegrees (ROBOTC intrinsics), in units of 1/TrigScale *)

SinTable ==
  <<0, 175, 349, 523, 698, 872, 1045, 1219, 1392, 1564,
    1736, 1908, 2079, 2250, 2419, 2588, 2756, 2924, 3090, 3256,
    3420, 3584, 3746, 3907, 4067, 4226, 4384, 4540, 4695, 4848,
    5000, 5150, 5299, 5446, 5592, 5736, 5878, 6018, 6157, 6293,
    6428, 6561, 6691, 6820, 6947, 7071, 7193, 7314, 7431, 7547,
    7660, 7771, 7880, 7986, 8090, 8192, 8290, 8387, 8480, 8572,
    8660, 8746, 8829, 8910, 8988, 9063, 9135, 9205, 9272, 9336,
    9397, 9455, 9511, 9563, 9613, 9659, 9703, 9744, 9781, 9816,
    9848, 9877, 9903, 9925, 9945, 9962, 9976, 9986, 9994, 9998,
    10000>>

sinDegrees(angle) ==
  LET m == angle % 360
  IN  IF m <= 90 THEN SinTable[m + 1]
      ELSE IF m <= 180 THEN SinTable[180 - m + 1]
      ELSE IF m <= 270 THEN -SinTable[m - 180 + 1]
      ELSE -SinTable[360 - m + 1]

cosDegrees(angle) == sinDegrees(angle + 90)

----------------------------------------------------------------------------
(* atan2 and getAngle, Common.h:21-35 and part_000:18-21 *)

\* floor of atan(n/d) in degrees, n >= 0, d > 0
AtanFloor(n, d) ==
  CHOOSE a \in 0..89 :
     /\ SinTable[a + 1] * d <= n * SinTable[90 - a + 1]
     /\ \/ a = 89
        \/ SinTable[a + 2] * d > n * SinTable[90 - a]

\* ceiling of atan(n/d) in degrees: the angle is a whole number of degrees
\* only for n = 0 and n = d
AtanCeil(n, d) ==
  IF n = 0 \/ n = d THEN AtanFloor(n, d) ELSE AtanFloor(n, d) + 1

\* (int) radiansToDegrees(atan2(xVal, yVal)), branch by branch
atan2Degrees(xVal, yVal) ==
  IF xVal > 0 THEN
    IF yVal >= 0 THEN AtanFloor(yVal, xVal) ELSE -AtanFloor(-yVal, xVal)
  ELSE IF yVal >= 0 /\ xVal < 0 THEN
    180 - AtanCeil(yVal, -xVal)
  ELSE IF yVal < 0 /\ xVal > 0 THEN
    -(180 + AtanFloor(-yVal, xVal))
  ELSE IF yVal > 0 /\ xVal = 0 THEN 90
  ELSE IF yVal < 0 /\ xVal = 0 THEN -90
  ELSE 0

getAngle == atan2Degrees(x_val, y_val)

\* (int) sqrt(n)
IntSqrt(n) == CHOOSE r \in 0..182 : r * r <= n /\ (r + 1) * (r + 1) > n

----------------------------------------------------------------------------
(* moveRobot and spin, Common.h:155-181: the motor[] array after the call *)

WheelMixNotHalved(x_value, y_value) ==
  [motorNW |-> TruncDiv(-x_value - y_value, TrigScale),
   motorNE |-> TruncDiv(-x_value + y_value, TrigScale),
   motorSE |-> TruncDiv(x_value + y_value, TrigScale),
   motorSW |-> TruncDiv(x_value - y_value, TrigScale)]

WheelMix(x_value, y_value) ==
  [motorNW |-> TruncDiv(-x_value - y_value, 2 * TrigScale),
   motorNE |-> TruncDiv(-x_value + y_value, 2 * TrigScale),
   motorSE |-> TruncDiv(x_value + y_value, 2 * TrigScale),
   motorSW |-> TruncDiv(x_value - y_value, 2 * TrigScale)]

moveRobot(m, speedArg, angle) ==
  LET x_value == cosDegrees(angle) * cap100(speedArg)
      y_value == sinDegrees(angle) * cap100(speedArg)
      mix     == WheelMix(x_value, y_value)
  IN  [w \in Motors |-> IF w \in Wheels THEN mix[w] ELSE m[w]]

spin(m, speedArg) ==
  [w \in Motors |-> IF w \in Wheels THEN speedArg ELSE m[w]]

----------------------------------------------------------------------------
(* Inputs of the model *)

\* joystick samples getJoystickSettings can deliver
Samples ==
  { [joy1_x1 |-> 0,   joy1_y1 |-> 0,    joy1_x2 |-> 0,
     joy2_Buttons |-> {3},    joy2_TopHat |-> TopHat_Idle],
    [joy1_x1 |-> -60, joy1_y1 |-> -128, joy1_x2 |-> 0,
     joy2_Buttons |-> {2, 6}, joy2_TopHat |-> TopHat_Up],
    [joy1_x1 |-> 25,  joy1_y1 |-> 0,    joy1_x2 |-> 127,
     joy2_Buttons |-> {4, 8}, joy2_TopHat |-> TopHat_Down] }

\* the joystick structure before the first message arrives
RestSample == [joy1_x1 |-> 0, joy1_y1 |-> 0, joy1_x2 |-> 0,
               joy2_Buttons |-> {}, joy2_TopHat |-> TopHat_Idle]

\* readings of the heading sensor, and targets a caller asks for
Headings == {0, 6, 270}

\* speeds turnToHeading is called with
EntrySpeeds == {20, 60, 95, 100, 101, 110}

joy2Btn(n) == n \in joystick.joy2_Buttons

compassHolderUp == "compassHolderUp"
compassHolderDown == "compassHolderDown"

----------------------------------------------------------------------------
(* Initial state: motors at rest, main() has run compassUp (part_000:116-122) *)

IdleTurn ==
  /\ tpc = "idle"
  /\ heading = 0 /\ speed = 0
  /\ startAngle = 0 /\ lastReading = 0 /\ currentReading = 0
  /\ numReadings = 0 /\ direction = 0
  /\ result = FALSE
  /\ entrySpeed = 0 /\ stalls = <<>>
  /\ io = "none" /\ lastPoll = <<>> /\ spunLevel = FALSE
  /\ dgpc = "idle" /\ degAngle = 0 /\ degResult = FALSE
  /\ lastServoOp = "compassUp"

IdleTasks ==
  /\ dpc = "dGet" /\ driveSample = RestSample
  /\ x_val = 0 /\ y_val = 0
  /\ apc = "aGet" /\ aret = "aGet"
  /\ stepSpeed = 0 /\ stepSize = 0 /\ stepDirection = 0

IdleHardware ==
  /\ joystick = RestSample
  /\ motor = [w \in Motors |-> 0]
  /\ servo = [servoSweeper |-> 128, servoCompass |-> compassHolderUp]
  /\ nMotorEncoder = 0
  /\ lastWheelOp = <<"none">>

IdleUnit == uArg = <<>> /\ uRet = 0 /\ uDone = FALSE

Init ==
  /\ program \in {"TeleOp", "Autonomous"}
  /\ bUseLogarithmicScale = TRUE
  /\ IdleHardware /\ IdleTasks /\ IdleTurn /\ IdleUnit
  /\ IF program = "Autonomous"
     THEN compass \in Headings /\ compassFrozen \in BOOLEAN
          /\ encoderFrozen = FALSE
     ELSE compass = 0 /\ compassFrozen = FALSE
          /\ encoderFrozen \in BOOLEAN

----------------------------------------------------------------------------
(* drivingTask, part_000:51-75 *)

\* line 55
DriveGet ==
  /\ program = "TeleOp" /\ dpc = "dGet"
  /\ \E s \in Samples : joystick' = s /\ driveSample' = s
  /\ dpc' = "dX"
  /\ UNCHANGED <<envvars, x_val, y_val, motor, servo, nMotorEncoder, compass,
                 avars, tvars, lastWheelOp, uvars>>

\* line 57
DriveX ==
  /\ program = "TeleOp" /\ dpc = "dX"
  /\ x_val' = scaleJoystick(joystick.joy1_x1, kMaximumPowerLevel)
  /\ dpc' = "dY"
  /\ UNCHANGED <<envvars, joystick, driveSample, y_val, motor, servo,
                 nMotorEncoder, compass, avars, tvars, lastWheelOp, uvars>>

\* line 58
DriveY ==
  /\ program = "TeleOp" /\ dpc = "dY"
  /\ y_val' = scaleJoystick(joystick.joy1_y1, kMaximumPowerLevel)
  /\ dpc' = "dMove"
  /\ UNCHANGED <<envvars, joystick, driveSample, x_val, motor, servo,
                 nMotorEncoder, compass, avars, tvars, lastWheelOp, uvars>>

WantMoveFrom10 == x_val >= 10 \/ x_val <= -10 \/ y_val >= 10 \/ y_val <= -10

\* line 66
WantMove == x_val > 10 \/ x_val < -10 \/ y_val > 10 \/ y_val < -10

\* lines 61-68
DriveMove ==
  /\ program = "TeleOp" /\ dpc = "dMove"
  /\ LET speedMagnitude == IntSqrt(Abs(x_val) * Abs(x_val) + Abs(y_val) * Abs(y_val))
         speedDirection == getAngle
     IN  IF WantMove
         THEN /\ motor' = moveRobot(motor, speedMagnitude, speedDirection)
              /\ lastWheelOp' = <<"moveRobot", speedMagnitude, speedDirection>>
              /\ dpc' = "dGet"
         ELSE /\ dpc' = "dRot"
              /\ UNCHANGED <<motor, lastWheelOp>>
  /\ UNCHANGED <<envvars, joystick, driveSample, x_val, y_val, servo,
                 nMotorEncoder, compass, avars, tvars, uvars>>

WantSpin == joystick.joy1_x2 > 10 \/ joystick.joy1_x2 < -10

\* lines 69 and 72-73
DriveRot ==
  /\ program = "TeleOp" /\ dpc = "dRot"
  /\ IF WantSpin
     THEN /\ dpc' = "dSpin"
          /\ UNCHANGED <<motor, lastWheelOp>>
     ELSE /\ motor' = spin(motor, 0)
          /\ lastWheelOp' = <<"spin", 0>>
          /\ dpc' = "dGet"
  /\ UNCHANGED <<envvars, joystick, driveSample, x_val, y_val, servo,
                 nMotorEncoder, compass, avars, tvars, uvars>>

\* line 71
DriveSpin ==
  /\ program = "TeleOp" /\ dpc = "dSpin"
  /\ LET s == scaleJoystick(joystick.joy1_x2, kMaximumPowerLevel)
     IN  /\ motor' = spin(motor, s)
         /\ lastWheelOp' = <<"spin", s>>
  /\ dpc' = "dGet"
  /\ UNCHANGED <<envvars, joystick, driveSample, x_val, y_val, servo,
                 nMotorEncoder, compass, avars, tvars, uvars>>

----------------------------------------------------------------------------
(* armTask, part_000:87-109, and armStep, Common.h:266-300 *)

ArmFrame == <<envvars, compass, dvars, tvars, lastWheelOp, uvars>>

\* line 91
ArmGet ==
  /\ program = "TeleOp" /\ apc = "aGet"
  /\ \E s \in Samples : joystick' = s
  /\ apc' = "aBtn2"
  /\ UNCHANGED <<ArmFrame, motor, servo, nMotorEncoder,
                 aret, stepSpeed, stepSize, stepDirection>>

\* lines 92-97: sweeperOn / sweeperReverse / sweeperOff (Common.h:239-258)
ArmSweeper ==
  /\ program = "TeleOp"
  /\ \E b \in {<<"aBtn2", 2, 255, "aBtn4">>,
               <<"aBtn4", 4, 0, "aBtn3">>,
               <<"aBtn3", 3, 128, "aBtn6">>} :
        /\ apc = b[1]
        /\ servo' = IF joy2Btn(b[2])
                    THEN [servo EXCEPT !.servoSweeper = b[3]]
                    ELSE servo
        /\ apc' = b[4]
  /\ UNCHANGED <<ArmFrame, joystick, motor, nMotorEncoder,
                 aret, stepSpeed, stepSize, stepDirection>>

\* lines 98-101: armStepUp() is armStep(50, 100), armStepDown() is armStep(-50, 100)
ArmStepCall ==
  /\ program = "TeleOp"
  /\ \E b \in {<<"aBtn6", 6, 50, "aBtn8">>,
               <<"aBtn8", 8, -50, "aHatUp">>} :
        /\ apc = b[1]
        /\ IF joy2Btn(b[2])
           THEN /\ stepSpeed' = b[3] /\ stepSize' = 100
                /\ aret' = b[4]
                /\ apc' = "sReset"
           ELSE /\ apc' = b[4]
                /\ UNCHANGED <<stepSpeed, stepSize, aret>>
  /\ UNCHANGED <<ArmFrame, joystick, motor, servo, nMotorEncoder,
                 stepDirection>>

\* Common.h:269-273
ArmStepReset ==
  /\ program = "TeleOp" /\ apc = "sReset"
  /\ stepDirection' = IF stepSpeed > 0 THEN 1 ELSE -1
  /\ nMotorEncoder' = 0
  /\ apc' = "sMotor"
  /\ UNCHANGED <<ArmFrame, joystick, motor, servo, aret, stepSpeed, stepSize>>

\* Common.h:275
ArmStepMotor ==
  /\ program = "TeleOp" /\ apc = "sMotor"
  /\ motor' = [motor EXCEPT !.motorArm = stepSpeed]
  /\ apc' = "sPoll"
  /\ UNCHANGED <<ArmFrame, joystick, servo, nMotorEncoder,
                 aret, stepSpeed, stepSize, stepDirection>>

StepPendingUpward(enc) == enc < Abs(stepSize)

\* the two loop conditions, Common.h:278 and 281
StepPending(enc) ==
  IF stepDirection = 1 THEN enc < Abs(stepSize) ELSE enc > -Abs(stepSize)

ArmStepPollStops ==
  /\ program = "TeleOp" /\ apc = "sPoll"
  /\ IF StepPending(nMotorEncoder)
     THEN apc' = "sPoll" /\ UNCHANGED motor
     ELSE apc' = aret /\ motor' = [motor EXCEPT !.motorArm = 0]
  /\ UNCHANGED <<ArmFrame, joystick, servo, nMotorEncoder,
                 aret, stepSpeed, stepSize, stepDirection>>

\* Common.h:277-283: one evaluation of the loop condition
ArmStepPoll ==
  /\ program = "TeleOp" /\ apc = "sPoll"
  /\ apc' = IF StepPending(nMotorEncoder) THEN "sPoll" ELSE aret
  /\ UNCHANGED <<ArmFrame, joystick, motor, servo, nMotorEncoder,
                 aret, stepSpeed, stepSize, stepDirection>>

\* lines 102-107
ArmTopHat ==
  /\ program = "TeleOp"
  /\ \E b \in {<<"aHatUp", TopHat_Up, 40, "aHatDown">>,
               <<"aHatDown", TopHat_Down, -40, "aHatIdle">>,
               <<"aHatIdle", TopHat_Idle, 0, "aGet">>} :
        /\ apc = b[1]
        /\ motor' = IF joystick.joy2_TopHat = b[2]
                    THEN [motor EXCEPT !.motorArm = b[3]]
                    ELSE motor
        /\ apc' = b[4]
  /\ UNCHANGED <<ArmFrame, joystick, servo, nMotorEncoder,
                 aret, stepSpeed, stepSize, stepDirection>>

\* the arm moves: the encoder counts EncStep ticks up or down.  Outside
\* armStep the encoder is never read (armStep resets it first), so only
\* the moves after the reset are modelled.
EncoderMove ==
  /\ program = "TeleOp" /\ ~encoderFrozen
  /\ apc \in {"sMotor", "sPoll"}
  /\ \E d \in {-EncStep, EncStep} :
        /\ Abs(nMotorEncoder + d) <= MaxEnc
        /\ nMotorEncoder' = nMotorEncoder + d
  /\ UNCHANGED <<ArmFrame, joystick, motor, servo, avars>>

----------------------------------------------------------------------------
(* turnToHeading, Common.h:190-223.  The recursive call is the last thing a *)
(* level does and its value is returned unchanged, so the active level's    *)
(* arguments and locals are the whole call state.                           *)

TurnFrame == <<envvars, joystick, servo, nMotorEncoder, compass,
               dvars, avars, uvars, hvars>>

\* the autonomous program calls turnToHeading(h, s)
TurnCall ==
  /\ program = "Autonomous" /\ tpc = "idle" /\ dgpc = "idle"
  /\ \E h \in Headings, s \in EntrySpeeds :
        /\ heading' = h /\ speed' = s /\ entrySpeed' = s
  /\ tpc' = "entry"
  /\ stalls' = <<>> /\ io' = "none" /\ lastPoll' = <<>>
  /\ spunLevel' = FALSE
  /\ UNCHANGED <<TurnFrame, motor, lastWheelOp, startAngle, lastReading,
                 currentReading, numReadings, direction, result>>

TooManyRetriesOver110(s) == s > 110

\* line 196
TooManyRetries(s) == s > 100

\* lines 196-197
TurnEntry ==
  /\ program = "Autonomous" /\ tpc = "entry"
  /\ IF TooManyRetries(speed)
     THEN result' = FALSE /\ tpc' = "done"
     ELSE tpc' = "start" /\ UNCHANGED result
  /\ io' = "none"
  /\ UNCHANGED <<TurnFrame, motor, lastWheelOp, heading, speed, startAngle,
                 lastReading, currentReading, numReadings, direction,
                 entrySpeed, stalls, lastPoll, spunLevel>>

\* line 203
TurnDirection(h, start) == IF TruncMod(h - start, 360) > 180 THEN 1 ELSE -1

\* lines 199-205
TurnStart ==
  /\ program = "Autonomous" /\ tpc = "start"
  /\ startAngle' = compass /\ lastReading' = compass
  /\ direction' = TurnDirection(heading, compass)
  /\ numReadings' = 0
  /\ io' = "read"
  /\ tpc' = "poll"
  /\ UNCHANGED <<TurnFrame, motor, lastWheelOp, heading, speed,
                 currentReading, result, entrySpeed, stalls,
                 lastPoll, spunLevel>>

OnTargetWithin(h, reading) == Abs(h - reading) <= 6

\* the loop condition of line 206, negated
OnTarget(h, reading) == h = reading

\* line 206, and line 222 when the loop ends
TurnPoll ==
  /\ program = "Autonomous" /\ tpc = "poll"
  /\ currentReading' = compass
  /\ lastPoll' = <<compass>>
  /\ io' = "read"
  /\ IF OnTarget(heading, compass)
     THEN result' = TRUE /\ tpc' = "done"
     ELSE tpc' = "body" /\ UNCHANGED result
  /\ UNCHANGED <<TurnFrame, motor, lastWheelOp, heading, speed, startAngle,
                 lastReading, numReadings, direction, entrySpeed, stalls,
                 spunLevel>>

TurnSpinCommandBySpeed(h, s, d) == d * s

\* line 208: the argument of spin; speed and direction are not used
TurnSpinCommand(h, s, d) == 20 * h

\* line 208
TurnSpin ==
  /\ program = "Autonomous" /\ tpc = "body"
  /\ motor' = spin(motor, TurnSpinCommand(heading, speed, direction))
  /\ lastWheelOp' = <<"spin", TurnSpinCommand(heading, speed, direction)>>
  /\ spunLevel' = TRUE
  /\ io' = "write"
  /\ tpc' = "count"
  /\ UNCHANGED <<TurnFrame, heading, speed, startAngle, lastReading,
                 currentReading, numReadings, direction, result, entrySpeed,
                 stalls, lastPoll>>

StalledAfter4(n) == n > 4

\* line 215
Stalled(n) == n > 5

\* lines 209-215 and 220
TurnCount ==
  /\ program = "Autonomous" /\ tpc = "count"
  /\ LET n == IF currentReading = lastReading THEN numReadings + 1 ELSE 0
     IN  /\ numReadings' = n
         /\ IF Stalled(n)
            THEN tpc' = "stalled" /\ UNCHANGED lastReading
            ELSE tpc' = "poll" /\ lastReading' = currentReading
  /\ io' = "none"
  /\ UNCHANGED <<TurnFrame, motor, lastWheelOp, heading, speed, startAngle,
                 currentReading, direction, result, entrySpeed, stalls,
                 lastPoll, spunLevel>>

TurnStopSkipped ==
  /\ program = "Autonomous" /\ tpc = "stalled"
  /\ io' = "none"
  /\ tpc' = "retry"
  /\ UNCHANGED <<TurnFrame, motor, lastWheelOp, heading, speed, startAngle,
                 lastReading, currentReading, numReadings, direction, result,
                 entrySpeed, stalls, lastPoll, spunLevel>>

\* line 217
TurnStop ==
  /\ program = "Autonomous" /\ tpc = "stalled"
  /\ motor' = spin(motor, 0)
  /\ lastWheelOp' = <<"spin", 0>>
  /\ io' = "write"
  /\ tpc' = "retry"
  /\ UNCHANGED <<TurnFrame, heading, speed, startAngle, lastReading,
                 currentReading, numReadings, direction, result, entrySpeed,
                 stalls, lastPoll, spunLevel>>

RetrySpeedDouble(s) == s + s

\* line 218: the speed of the retry
RetrySpeed(s) == s + 10

\* line 218: turnToHeading(heading, speed+10) starts a level with fresh locals
TurnRetry ==
  /\ program = "Autonomous" /\ tpc = "retry"
  /\ stalls' = Append(stalls, speed)
  /\ UNCHANGED lastPoll
  /\ speed' = RetrySpeed(speed)
  /\ startAngle' = 0 /\ lastReading' = 0 /\ currentReading' = 0
  /\ numReadings' = 0 /\ direction' = 0
  /\ spunLevel' = FALSE
  /\ io' = "none"
  /\ tpc' = "entry"
  /\ UNCHANGED <<TurnFrame, motor, lastWheelOp, heading, result, entrySpeed>>

\* the caller takes the returned value
TurnReturn ==
  /\ program = "Autonomous" /\ tpc = "done" /\ dgpc = "idle"
  /\ tpc' = "idle"
  /\ startAngle' = 0 /\ lastReading' = 0 /\ currentReading' = 0
  /\ numReadings' = 0 /\ direction' = 0
  /\ io' = "none"
  /\ UNCHANGED <<TurnFrame, motor, lastWheelOp, heading, speed, result,
                 entrySpeed, stalls, lastPoll, spunLevel>>

----------------------------------------------------------------------------
(* turnDegrees, Common.h:231-234 *)

\* relative angles a caller asks for
DegAngles == {6, -90}

\* the default of turnToHeading's speed parameter, line 190
DefaultTurnSpeed == 20

\* line 233: the heading passed to turnToHeading
TurnDegreesTarget(current, angle) == current - angle

\* line 233: HTMCreadHeading(sensorCompass)-angle is evaluated and
\* turnToHeading is entered with the default speed
DegreesCall ==
  /\ program = "Autonomous" /\ tpc = "idle" /\ dgpc = "idle"
  /\ \E a \in DegAngles :
        /\ degAngle' = a
        /\ heading' = TurnDegreesTarget(compass, a)
  /\ speed' = DefaultTurnSpeed /\ entrySpeed' = DefaultTurnSpeed
  /\ dgpc' = "called"
  /\ tpc' = "entry"
  /\ stalls' = <<>> /\ io' = "read" /\ lastPoll' = <<>>
  /\ spunLevel' = FALSE
  /\ UNCHANGED <<envvars, joystick, servo, nMotorEncoder, compass,
                 dvars, avars, uvars, motor, lastWheelOp, startAngle,
                 lastReading, currentReading, numReadings, direction, result,
                 degResult, lastServoOp>>

\* line 234: turnToHeading has returned and turnDegrees ends without a
\* return statement, so the value its caller receives is not determined
DegreesReturn ==
  /\ program = "Autonomous" /\ tpc = "done" /\ dgpc = "called"
  /\ degResult' \in BOOLEAN
  /\ dgpc' = "done"
  /\ tpc' = "idle"
  /\ startAngle' = 0 /\ lastReading' = 0 /\ currentReading' = 0
  /\ numReadings' = 0 /\ direction' = 0
  /\ io' = "none"
  /\ UNCHANGED <<envvars, joystick, servo, nMotorEncoder, compass,
                 dvars, avars, uvars, motor, lastWheelOp, heading, speed,
                 result, entrySpeed, stalls, lastPoll, spunLevel,
                 degAngle, lastServoOp>>

\* the caller of turnDegrees takes the value and the frame is gone
DegreesDone ==
  /\ program = "Autonomous" /\ dgpc = "done"
  /\ dgpc' = "idle"
  /\ degAngle' = 0 /\ degResult' = FALSE
  /\ UNCHANGED <<envvars, joystick, servo, nMotorEncoder, compass,
                 dvars, avars, uvars, motor, lastWheelOp, tpc, heading, speed,
                 startAngle, lastReading, currentReading, numReadings,
                 direction, result, entrySpeed, stalls, io, lastPoll,
                 spunLevel, lastServoOp>>

----------------------------------------------------------------------------
(* compassUp and compassDown, Common.h:117-128 *)

CompassIdle == program = "Autonomous" /\ tpc = "idle" /\ dgpc = "idle"

\* line 119
CompassUp ==
  /\ CompassIdle
  /\ servo' = [servo EXCEPT !.servoCompass = compassHolderUp]
  /\ lastServoOp' = "compassUp"
  /\ UNCHANGED <<envvars, joystick, nMotorEncoder, compass,
                 dvars, avars, uvars, motor, lastWheelOp, tpc, heading, speed,
                 startAngle, lastReading, currentReading, numReadings,
                 direction, result, entrySpeed, stalls, io, lastPoll,
                 spunLevel, dgpc, degAngle, degResult>>

\* line 127
CompassDown ==
  /\ CompassIdle
  /\ servo' = [servo EXCEPT !.servoCompass = compassHolderUp]
  /\ lastServoOp' = "compassDown"
  /\ UNCHANGED <<envvars, joystick, nMotorEncoder, compass,
                 dvars, avars, uvars, motor, lastWheelOp, tpc, heading, speed,
                 startAngle, lastReading, currentReading, numReadings,
                 direction, result, entrySpeed, stalls, io, lastPoll,
                 spunLevel, dgpc, degAngle, degResult>>

\* the robot turns: the heading sensor reports another reading
CompassChange ==
  /\ program = "Autonomous" /\ ~compassFrozen
  /\ tpc \notin {"idle", "done"}
  /\ \E c \in Headings \ {compass} : compass' = c
  /\ UNCHANGED <<envvars, joystick, motor, servo, nMotorEncoder,
                 dvars, avars, tvars, lastWheelOp, uvars>>

----------------------------------------------------------------------------
(* The two programs *)

\* one statement of an active turnToHeading
TurnStep ==
  \/ TurnEntry \/ TurnStart \/ TurnPoll \/ TurnSpin \/ TurnCount
  \/ TurnStop \/ TurnRetry

Next ==
  \/ DriveGet \/ DriveX \/ DriveY \/ DriveMove \/ DriveRot \/ DriveSpin
  \/ ArmGet \/ ArmSweeper \/ ArmStepCall \/ ArmStepReset \/ ArmStepMotor
  \/ ArmStepPoll \/ ArmTopHat \/ EncoderMove
  \/ TurnCall \/ TurnEntry \/ TurnStart \/ TurnPoll \/ TurnSpin \/ TurnCount
  \/ TurnStop \/ TurnRetry \/ TurnReturn \/ CompassChange
  \/ DegreesCall \/ DegreesReturn \/ DegreesDone
  \/ CompassUp \/ CompassDown

Spec == Init /\ [][Next]_vars

\* the autonomous program alone; the task running turnToHeading keeps
\* being scheduled (wait10Msec returns), so its next statement is executed
AutonomousInit == Init /\ program = "Autonomous"

AutonomousNext ==
  \/ TurnCall \/ TurnStep \/ TurnReturn \/ CompassChange
  \/ DegreesCall \/ DegreesReturn \/ DegreesDone
  \/ CompassUp \/ CompassDown

FairTurnSpec ==
  AutonomousInit /\ [][AutonomousNext]_vars /\ WF_vars(TurnStep)

----------------------------------------------------------------------------
(* Harness for scaleJoystick: every raw value, both curves *)

ScaleInit ==
  /\ program = "ScaleJoystick"
  /\ bUseLogarithmicScale \in BOOLEAN
  /\ compass = 0 /\ compassFrozen = FALSE /\ encoderFrozen = FALSE
  /\ IdleHardware /\ IdleTasks /\ IdleTurn
  /\ uArg \in (-128..127) \X (-2..MaxPowerArg)
  /\ uRet = 0 /\ uDone = FALSE

ScaleApply ==
  /\ program = "ScaleJoystick" /\ ~uDone
  /\ uRet' = scaleJoystick(uArg[1], uArg[2])
  /\ uDone' = TRUE
  /\ UNCHANGED <<envvars, joystick, motor, servo, nMotorEncoder, compass,
                 dvars, avars, tvars, lastWheelOp, uArg>>

ScaleSpec == ScaleInit /\ [][ScaleApply]_vars

(* Harness for moveRobot: every speed and whole-degree heading *)

MoveInit ==
  /\ program = "MoveRobot"
  /\ bUseLogarithmicScale = TRUE
  /\ compass = 0 /\ compassFrozen = FALSE /\ encoderFrozen = FALSE
  /\ IdleHardware /\ IdleTasks /\ IdleTurn
  /\ uArg \in (-MaxSpeedArg..MaxSpeedArg) \X (0..359)
  /\ uRet = 0 /\ uDone = FALSE

MoveApply ==
  /\ program = "MoveRobot" /\ ~uDone
  /\ motor' = moveRobot(motor, uArg[1], uArg[2])
  /\ lastWheelOp' = <<"moveRobot", uArg[1], uArg[2]>>
  /\ uDone' = TRUE
  /\ UNCHANGED <<envvars, joystick, servo, nMotorEncoder, compass,
                 dvars, avars, tvars, uArg, uRet>>

MoveSpec == MoveInit /\ [][MoveApply]_vars

(* Harness for getAngle: every pair of shaped left-stick values *)

AngleInit ==
  /\ program = "GetAngle"
  /\ bUseLogarithmicScale = TRUE
  /\ compass = 0 /\ compassFrozen = FALSE /\ encoderFrozen = FALSE
  /\ IdleHardware /\ IdleTurn /\ IdleUnit
  /\ dpc = "dGet" /\ driveSample = RestSample
  /\ x_val \in -MaxAxisArg..MaxAxisArg /\ y_val \in -MaxAxisArg..MaxAxisArg
  /\ apc = "aGet" /\ aret = "aGet"
  /\ stepSpeed = 0 /\ stepSize = 0 /\ stepDirection = 0

AngleApply ==
  /\ program = "GetAngle" /\ ~uDone
  /\ uRet' = getAngle
  /\ uDone' = TRUE
  /\ UNCHANGED <<envvars, joystick, motor, servo, nMotorEncoder, compass,
                 dvars, avars, tvars, lastWheelOp, uArg>>

AngleSpec == AngleInit /\ [][AngleApply]_vars

----------------------------------------------------------------------------
(* Properties *)

\* C1: a turnToHeading level entered with speed > 100 returns false in its
\* first step, for every target, and that step neither reads the heading
\* sensor nor writes a motor: the four wheel commands are unchanged.
C1_OverCapReturnsFalse ==
  [][(tpc = "entry" /\ speed > 100 /\ tpc' # tpc)
       => /\ tpc' = "done" /\ result' = FALSE
          /\ motor' = motor
          /\ io' = "none" /\ lastPoll' = lastPoll
          /\ startAngle' = startAngle /\ lastReading' = lastReading]_vars

C1_Witness ==
  tpc = "done" /\ entrySpeed > 100 /\ speed = entrySpeed /\ heading = 6
  /\ ~result /\ lastPoll = <<>>

\* the speeds s, s+10, s+20, ... that do not exceed 100
StallLevels(s) ==
  IF s > 100 THEN <<>>
  ELSE [i \in 1..((100 - s) \div 10 + 1) |-> s + 10 * (i - 1)]

\* C2: with the heading sensor frozen at a reading other than the target,
\* turnToHeading(target, s) terminates and returns false, after one stall at
\* each of the speeds s, s+10, ... up to 100; from 60 these are exactly the
\* five stalls at 60, 70, 80, 90 and 100.
C2_FrozenSensorFails ==
  /\ [](compassFrozen /\ compass # heading /\ tpc = "done"
          => /\ ~result
             /\ stalls = StallLevels(entrySpeed)
             /\ (entrySpeed = 60 => stalls = <<60, 70, 80, 90, 100>>))
  /\ (compassFrozen /\ compass # heading /\ tpc = "entry")
        ~> (tpc = "done" /\ ~result)

C2_Witness ==
  compassFrozen /\ compass # heading /\ tpc = "done" /\ ~result
  /\ entrySpeed = 60 /\ stalls = <<60, 70, 80, 90, 100>> /\ speed = 110

\* C3: turnToHeading returns true exactly when the latest poll of the loop
\* condition equals the target; a poll that differs from the target goes on
\* into the loop body, and a poll that equals it ends the call with true
\* without another motor write.
C3_TrueIffExactMatch ==
  /\ [](tpc = "done" => (result <=> lastPoll = <<heading>>))
  /\ [][(tpc = "poll" /\ tpc' # tpc)
          => IF compass = heading
             THEN tpc' = "done" /\ result' /\ motor' = motor
             ELSE tpc' = "body"]_vars

C3_Witness ==
  tpc = "done" /\ result /\ lastPoll = <<heading>> /\ stalls # <<>>
  /\ heading = 6

\* C4: each wheel motor command is in the DriveCommand domain [-100, 100].
C4_WheelsInDomain ==
  \A w \in Wheels : motor[w] >= -100 /\ motor[w] <= 100

\* C5: after spin(s) the four wheel commands are equal to cap(s).
C5_SpinCaps ==
  lastWheelOp[1] = "spin"
    => \A w \in Wheels : motor[w] = cap100(lastWheelOp[2])

\* the tick target of the active armStep is reached, as the claim states it
StepReached ==
  IF stepSpeed > 0 THEN nMotorEncoder >= Abs(stepSize)
                   ELSE nMotorEncoder <= -Abs(stepSize)

InArmStep == apc \in {"sMotor", "sPoll"}

\* C6: armStep leaves its polling loop only at a poll that finds the encoder
\* at or beyond the tick target in the direction of speed, and a poll that
\* finds it there returns; with the encoder frozen at the reset value 0 and a
\* non-zero target, the arm task stays inside armStep in every later state.
C6_ArmStepBlocksUntilReached ==
  /\ [](apc = "sPoll" /\ StepReached
          => /\ ENABLED (ArmStepPoll /\ apc' = aret)
             /\ ~ENABLED (ArmStepPoll /\ apc' = "sPoll"))
  /\ [](apc = "sPoll" /\ ~StepReached => ~ENABLED (ArmStepPoll /\ apc' # "sPoll"))
  /\ [](encoderFrozen /\ InArmStep => nMotorEncoder = 0)
  /\ [][(apc = "sPoll" /\ apc' # "sPoll") => (apc' = aret /\ StepReached)]_vars
  /\ [][(encoderFrozen /\ stepSize # 0 /\ InArmStep) => InArmStep']_vars

C6_Witness ==
  /\ encoderFrozen /\ apc = "sPoll" /\ nMotorEncoder = 0
  /\ stepSpeed = -50 /\ stepSize = 100 /\ motor.motorArm = -50
  /\ joystick.joy2_Buttons = {2, 6}

\* C7: in both curve modes and for every raw in [-128, 127], a limit
\* 0 < maxPower <= 100 bounds the result by maxPower in absolute value, and a
\* limit outside (0, 100] is ignored: the result is that of maxPower = 100.
C7_MaxPowerLimit ==
  uDone =>
    LET raw == uArg[1]
        maxPower == uArg[2]
    IN  /\ (0 < maxPower /\ maxPower <= 100) => Abs(uRet) <= maxPower
        /\ (maxPower <= 0 \/ maxPower > 100) => uRet = scaleJoystick(raw, 100)

C7_Witness ==
  uDone /\ ~bUseLogarithmicScale /\ uArg = <<-128, -1>> /\ uRet = -100

Sign(v) == IF v > 0 THEN 1 ELSE IF v < 0 THEN -1 ELSE 0

\* C8: in logarithmic mode with maxPower = 100, scaleJoystick is monotonic
\* non-decreasing and odd on [-127, 127], and equals the sign of raw times
\* the table entry at |raw| / 4 (rounded toward zero).
C8_LogCurveMonotonicOdd ==
  (uDone /\ bUseLogarithmicScale /\ uArg[2] = 100
     /\ uArg[1] >= -127 /\ uArg[1] <= 127)
    => LET raw == uArg[1]
       IN  /\ \A other \in -127..127 :
                 (raw <= other => uRet <= scaleJoystick(other, 100))
           /\ scaleJoystick(-raw, 100) = -uRet
           /\ uRet = Sign(raw) * nLogScale[(Abs(raw) \div 4) + 1]

C8_Witness ==
  uDone /\ bUseLogarithmicScale /\ uArg = <<-127, 100>> /\ uRet = -100

\* C9: for speed in [-100, 100] and heading in [0, 360), moveRobot writes
\* NW = (-x - y)/2, NE = (-x + y)/2, SE = (x + y)/2, SW = (x - y)/2 for
\* x = cos(heading)*cap(speed), y = sin(heading)*cap(speed); no wheel exceeds
\* |speed|; and moveRobot(100, 0) gives NW = NE = -50, SE = SW = 50.
C9_MoveRobotMix ==
  (uDone /\ uArg[1] >= -100 /\ uArg[1] <= 100)
    => LET s == uArg[1]
           a == uArg[2]
           x == cosDegrees(a) * cap100(s)
           y == sinDegrees(a) * cap100(s)
       IN  /\ motor.motorNW = TruncDiv(-x - y, 2 * TrigScale)
           /\ motor.motorNE = TruncDiv(-x + y, 2 * TrigScale)
           /\ motor.motorSE = TruncDiv(x + y, 2 * TrigScale)
           /\ motor.motorSW = TruncDiv(x - y, 2 * TrigScale)
           /\ \A w \in Wheels : Abs(motor[w]) <= Abs(s)
           /\ (s = 100 /\ a = 0)
                => /\ motor.motorNW = -50 /\ motor.motorNE = -50
                   /\ motor.motorSE = 50 /\ motor.motorSW = 50

C9_Witness ==
  /\ uDone /\ uArg = <<100, 0>>
  /\ motor.motorNW = -50 /\ motor.motorNE = -50
  /\ motor.motorSE = 50 /\ motor.motorSW = 50

\* C10: whenever drivingTask is about to read an axis of `joystick`, that
\* axis still holds the value of the sample the cycle's own
\* getJoystickSettings call captured.
C10_CycleUsesOwnSample ==
  /\ dpc = "dX" => joystick.joy1_x1 = driveSample.joy1_x1
  /\ dpc = "dY" => joystick.joy1_y1 = driveSample.joy1_y1
  /\ dpc \in {"dRot", "dSpin"} => joystick.joy1_x2 = driveSample.joy1_x2

\* C11: turnDegrees calls turnToHeading with the default speed 20 and the
\* target current - relative, and the value it returns to its caller is the
\* value that turnToHeading call returned.
C11_TurnDegreesReturnsTurnResult ==
  /\ dgpc = "called"
       => /\ entrySpeed = 20
          /\ \E c \in Headings : heading = c - degAngle
  /\ dgpc = "done" => degResult = result

\* C12: compassDown leaves the compass-holder servo at compassHolderDown and
\* compassUp leaves it at compassHolderUp.
C12_CompassHolderPositions ==
  /\ lastServoOp = "compassDown" => servo.servoCompass = compassHolderDown
  /\ lastServoOp = "compassUp" => servo.servoCompass = compassHolderUp

\* C16: the target turnDegrees passes to turnToHeading is a heading the
\* sensor can report, in [0, 360).
C16_TurnDegreesTargetValid ==
  dgpc = "called" => (heading >= 0 /\ heading < 360)

AllWheels(m, v) == \A w \in Wheels : m[w] = v

\* C13: within a level the counter of consecutive polls equal to the
\* previous reading goes back to 0 at a differing poll; the stall is declared
\* at the loop iteration that takes it above 5 (the sixth equal poll in a
\* row) and never earlier; the stalled level commands spin(0) first and then
\* enters the retry with the same target and speed + 10, which reads the
\* start heading again and counts from 0.
C13_StallAfterSixEqualPolls ==
  /\ [](numReadings <= 6)
  /\ [](tpc \in {"stalled", "retry"}
          => numReadings = 6 /\ currentReading = lastReading)
  /\ [][(tpc = "count" /\ tpc' # tpc)
          => /\ currentReading # lastReading => numReadings' = 0
             /\ currentReading = lastReading => numReadings' = numReadings + 1
             /\ tpc' = (IF numReadings' > 5 THEN "stalled" ELSE "poll")]_vars
  /\ [][(tpc = "stalled" /\ tpc' # tpc)
          => /\ tpc' = "retry" /\ AllWheels(motor', 0)
             /\ speed' = speed]_vars
  /\ [][(tpc = "retry" /\ tpc' # tpc)
          => /\ tpc' = "entry" /\ heading' = heading /\ speed' = speed + 10
             /\ motor' = motor]_vars
  /\ [][(tpc = "start" /\ tpc' # tpc)
          => /\ startAngle' = compass /\ lastReading' = compass
             /\ numReadings' = 0]_vars

C13_Witness ==
  /\ tpc = "poll" /\ stalls = <<20>> /\ speed = 30 /\ numReadings = 0
  /\ ~compassFrozen /\ startAngle # lastReading /\ AllWheels(motor, 120)

InTurnLoop == tpc \in {"start", "poll", "body", "count"}

\* C15: turnToHeading returns only from a poll that equals the target or
\* from an entry with speed > 100, and raises its speed only after six equal
\* polls in a row; so in an execution where no poll equals the target and
\* the reading changes within every six polls, a call that has started
\* stays in its loop for ever at the same speed and writes the wheels again
\* and again.  The levels that stall are at most the +10 steps from the
\* entry speed up to 100.
C15_NoTimeout ==
  /\ [][(tpc' = "done" /\ tpc # "done")
          => \/ tpc = "poll" /\ compass = heading
             \/ tpc = "entry" /\ speed > 100]_vars
  /\ [][(speed' # speed /\ tpc # "idle")
          => tpc = "retry" /\ numReadings = 6]_vars
  /\ [](/\ Len(stalls) <= Len(StallLevels(entrySpeed))
        /\ speed = entrySpeed + 10 * Len(stalls))
  /\ ([](lastPoll # <<heading>>) /\ [](numReadings <= 5))
        => [](tpc = "start"
                => /\ [](InTurnLoop /\ speed = entrySpeed)
                   /\ []<>(tpc = "count" /\ io = "write"))

C15_Witness ==
  /\ ~compassFrozen /\ tpc = "count" /\ io = "write"
  /\ stalls = <<>> /\ numReadings = 5 /\ currentReading # lastReading
  /\ lastPoll # <<heading>> /\ heading = 270

MoveWanted == Abs(x_val) > 10 \/ Abs(y_val) > 10

\* C17: a drivingTask cycle writes the wheels once, in the step that ends
\* it, by exactly one of: moveRobot(magnitude, angle) when a shaped
\* left-stick value has magnitude > 10; else spin(scaleJoystick(joy1_x2))
\* when the raw right-stick x read at line 69 has magnitude > 10; else
\* spin(0).  With every value read at rest the wheels end at 0.
C17_DriveCycleBranches ==
  /\ [][(dpc # "dGet" /\ dpc' = "dGet")
          => \/ /\ dpc = "dMove" /\ MoveWanted
                /\ motor' = moveRobot(motor,
                               IntSqrt(x_val * x_val + y_val * y_val),
                               getAngle)
             \/ /\ dpc = "dSpin" /\ ~MoveWanted
                /\ AllWheels(motor', scaleJoystick(joystick.joy1_x2, 100))
             \/ /\ dpc = "dRot" /\ ~MoveWanted
                /\ Abs(joystick.joy1_x2) <= 10
                /\ AllWheels(motor', 0)]_vars
  /\ [][(dpc = "dMove" /\ dpc' # dpc)
          => (dpc' = "dGet" <=> MoveWanted)]_vars
  /\ [][(dpc = "dRot" /\ dpc' # dpc)
          => (dpc' = "dSpin" <=> Abs(joystick.joy1_x2) > 10)]_vars
  /\ [][(dpc' # dpc /\ motor' # motor) => dpc' = "dGet"]_vars
  /\ [][(dpc # "dGet" /\ dpc' = "dGet"
           /\ x_val = 0 /\ y_val = 0 /\ joystick.joy1_x2 = 0)
          => AllWheels(motor', 0)]_vars

C17_Witness ==
  /\ dpc = "dGet" /\ x_val = 10 /\ y_val = 0
  /\ lastWheelOp = <<"spin", 100>> /\ AllWheels(motor, 100)

\* C18: getAngle returns, to whole degrees, the polar angle of
\* (x_val, y_val) in the quadrant given by the signs of x and y.
C18_AngleInQuadrant ==
  uDone =>
    /\ (x_val > 0 /\ y_val >= 0) => (uRet >= 0 /\ uRet < 90)
    /\ (x_val < 0 /\ y_val >= 0) => (uRet >= 90 /\ uRet <= 180)
    /\ (x_val < 0 /\ y_val < 0) => (uRet > -180 /\ uRet <= -90)
    /\ (x_val > 0 /\ y_val < 0) => (uRet > -90 /\ uRet <= 0)
    /\ (x_val = 0 /\ y_val > 0) => uRet = 90
    /\ (x_val = 0 /\ y_val < 0) => uRet = -90

\* C20: armStep sets the encoder to 0 before it writes the arm motor, writes
\* the arm motor once, with speed, and leaves it: when armStep returns the
\* arm motor command is still speed (+50 after armStepUp, -50 after
\* armStepDown).
C20_ArmStepLeavesMotorOn ==
  /\ [](apc = "sPoll" => motor.motorArm = stepSpeed)
  /\ [][(apc = "sReset" /\ apc' # apc)
          => nMotorEncoder' = 0 /\ motor' = motor /\ apc' = "sMotor"]_vars
  /\ [][(apc = "sMotor" /\ apc' # apc)
          => motor'.motorArm = stepSpeed /\ apc' = "sPoll"]_vars
  /\ [][apc = "sPoll" => motor'.motorArm = motor.motorArm]_vars
  /\ [][(apc = "sPoll" /\ apc' # apc)
          => /\ motor'.motorArm = stepSpeed
             /\ stepSpeed = (IF apc' = "aBtn8" THEN 50 ELSE -50)]_vars

C20_Witness ==
  /\ apc = "aHatUp" /\ aret = "aHatUp" /\ stepSpeed = -50
  /\ motor.motorArm = -50 /\ nMotorEncoder <= -100

====
